---- MODULE Spec2Model ----
(***************************************************************************)
(* EduPath course catalog and recommendation engine.                       *)
(*                                                                         *)
(*   engine/loader.py         load_and_preprocess, get_courses_list,       *)
(*                            build_course_index                           *)
(*   engine/binary_search.py  binary_search                                *)
(*   engine/prerequisite.py   get_learning_path                            *)
(*   engine/recommender.py    init_recommender, get_similar_courses,       *)
(*                            recommend_by_filters                         *)
(*                                                                         *)
(* Each engine module is a group of variables with its own specification:  *)
(* ResolveSpec (prerequisite.py), LoadSpec (loader.py, binary_search.py),  *)
(* RecSpec (init_recommender / get_similar_courses), FilterSpec            *)
(* (recommend_by_filters), MockSpec (the standalone engine's recursive     *)
(* get_learning_path, mock/edupath_engine.py) and SearchSpec               *)
(* (search_by_title).                                                      *)
(***************************************************************************)
EXTENDS Integers, Sequences, FiniteSets, TLC

\* ------------------------------------------------------------------ bounds
\* Courses in a generated catalog; ids are 1..NumCourses.
NumCourses == 3
\* Total number of prerequisite references in a generated catalog.
MaxEdges == 3
\* Largest explicit max_depth argument tried (besides the default).
MaxDepthBound == 3
\* Length of the long prerequisite chain catalog.
ChainDepth == 25

\* Rows in the course file, and the largest course_id in it.
MaxRows == 3
MaxId == 3

\* Largest course_id of a catalog handed to init_recommender.
RecMaxId == 3
\* Similarity scores are 0..MaxSim (MaxSim stands for cosine 1.0).
MaxSim == 1
\* Calls of init_recommender in one run (the start-up build and rebuilds).
MaxBuilds == 2
\* Largest top_k asked for.
MaxTopK == 2

\* Courses in a catalog handed to recommend_by_filters.
FiltMaxCourses == 3

\* Courses in a catalog handed to search_by_title, and characters in a search
\* text.
SearchMaxCourses == 2
SearchMaxKeyword == 2

\* max_depth: int = 20
DefaultMaxDepth == 20

VARIABLES
    \* ---- prerequisite.py: get_learning_path
    courses_index,      \* {course_id: course_dict}
    rpc,                \* position of the call: idle, loop, done
    r_course_id,        \* argument course_id
    r_max_depth,        \* argument max_depth
    target,
    cycle_detected,
    seen,
    levels,
    current_frontier,
    depth,
    result,
    \* ---- loader.py, app.py start-up, binary_search.py
    csv_rows,           \* the rows pd.read_csv returns, in file order
    df,                 \* loader._df
    courses_list,       \* app.config['COURSES_LIST']
    course_index,       \* app.config['COURSE_INDEX']
    load_error,         \* the exception start-up ended with, "none" if none
    lpc,                \* position of start-up: start, loaded, listed, ready
    q_id,               \* the id last looked up (0: none yet)
    bs_result,          \* what binary_search returned for it
    idx_result,         \* what course_index.get returned for it
    \* ---- recommender.py: module globals, init_recommender, get_similar_courses
    tfidf_matrix,       \* _tfidf_matrix
    cosine_sim,         \* _cosine_sim
    rec_courses_list,   \* _courses_list
    id_to_index,        \* _id_to_index
    ipc,                \* position of init_recommender: idle, list_set, tfidf_set, sim_set
    i_courses,          \* its argument courses_list
    builds,             \* calls of init_recommender started so far
    qpc,                \* position of get_similar_courses: idle, checked, indexed, scored, done
    q_course_id,        \* its argument course_id
    q_top_k,            \* its argument top_k
    q_idx,              \* local idx
    q_scores,           \* local scores[:top_k], as the positions i of the pairs (i, s)
    q_pos,              \* position of the for loop in it
    q_result,           \* local result
    q_outcome,          \* pending, returned or IndexError
    q_builds,           \* the builds whose data the call has read so far
    \* ---- recommender.py: recommend_by_filters
    f_courses,          \* argument courses_list
    f_args,             \* arguments category, difficulty, max_hours, min_rating, top_k
    f_result,           \* the list returned
    fpc,                \* idle, done
    \* ---- mock/edupath_engine.py: the recursive get_learning_path
    m_index,            \* argument index, {course_id: course_dict}
    mpc,                \* position of the outermost call: idle, run, done
    m_start,            \* its argument course_id
    m_max_depth,        \* its argument max_depth
    m_visited,          \* the visited set shared by all the nested calls
    m_stack,            \* the calls in progress, outermost first
    m_warnings,         \* the warnings printed so far
    m_result,           \* the list the outermost call returned
    \* ---- binary_search.py: search_by_title
    s_courses,          \* argument courses_list
    s_keyword,          \* argument keyword
    s_result,           \* the list returned
    spc                 \* idle, done

resVars == <<courses_index, rpc, r_course_id, r_max_depth, target,
             cycle_detected, seen, levels, current_frontier, depth, result>>

loadVars == <<csv_rows, df, courses_list, course_index, load_error, lpc,
              q_id, bs_result, idx_result>>

recVars == <<tfidf_matrix, cosine_sim, rec_courses_list, id_to_index, ipc,
             i_courses, builds, qpc, q_course_id, q_top_k, q_idx, q_scores,
             q_pos, q_result, q_outcome, q_builds>>

filtVars == <<f_courses, f_args, f_result, fpc>>

mockVars == <<m_index, mpc, m_start, m_max_depth, m_visited, m_stack,
              m_warnings, m_result>>

searchVars == <<s_courses, s_keyword, s_result, spc>>

vars == <<resVars, loadVars, recVars, filtVars, mockVars, searchVars>>

\* What an action of one engine module leaves alone: the other modules' state.
notResVars == <<loadVars, recVars, filtVars, mockVars, searchVars>>
notLoadVars == <<resVars, recVars, filtVars, mockVars, searchVars>>
notRecVars == <<resVars, loadVars, filtVars, mockVars, searchVars>>
notFiltVars == <<resVars, loadVars, recVars, mockVars, searchVars>>
notMockVars == <<resVars, loadVars, recVars, filtVars, searchVars>>
notSearchVars == <<resVars, loadVars, recVars, filtVars, mockVars>>

\* ------------------------------------------------------------ helpers
Range(s) == {s[i] : i \in 1..Len(s)}

RECURSIVE SumSeq(_)
SumSeq(s) == IF s = <<>> THEN 0 ELSE Head(s) + SumSeq(Tail(s))

RECURSIVE Flatten(_)
Flatten(ss) == IF ss = <<>> THEN <<>> ELSE Head(ss) \o Flatten(Tail(ss))

Reverse(s) == [i \in 1..Len(s) |-> s[Len(s) + 1 - i]]

\* Python's None, and dict.get
None == [is_none |-> TRUE]
DictGet(d, k) == IF k \in DOMAIN d THEN d[k] ELSE None

\* ------------------------------------------------------------ course data
\* est_hours is a float column; the model counts it in half hours so that
\* int(est_hours) truncates.
HoursOf(i) == i + 2
IntOf(halfHours) == halfHours \div 2

\* A prerequisite reference: a catalog id, or NumCourses + 1, which no generated
\* catalog holds (a dangling reference).
RefIds == 1..(NumCourses + 1)

PrereqListsUpTo(n) == UNION {[1..k -> RefIds] : k \in 0..n}

\* Every assignment of prerequisite lists to courses 1..n with at most
\* `budget` references in total.
RECURSIVE PrereqAssignments(_, _)
PrereqAssignments(n, budget) ==
    IF n = 0 THEN {<<>>}
    ELSE UNION {{<<l>> \o rest : rest \in PrereqAssignments(n - 1, budget - Len(l))}
                : l \in PrereqListsUpTo(budget)}

Course(i, prereqs) ==
    [course_id |-> i, prerequisite_ids |-> prereqs, est_hours |-> HoursOf(i)]

MakeIndex(pa) == [i \in 1..Len(pa) |-> Course(i, pa[i])]

\* Course i requires course i + 1, for ChainDepth links below course 1.
ChainIndex == [i \in 1..(ChainDepth + 1) |->
                 Course(i, IF i <= ChainDepth THEN <<i + 1>> ELSE <<>>)]

GeneratedIndexes == {MakeIndex(pa) : pa \in PrereqAssignments(NumCourses, MaxEdges)}

DepthChoices == (0..MaxDepthBound) \cup {DefaultMaxDepth}

\* ------------------------------------------------- get_learning_path
\* The for loop over current_frontier (lines 48-68), from position i on.
\* st = [seen, level_courses, next_frontier, cycle_detected]
AppendUnseen(next, subs, seenNow) ==
    next \o SelectSeq(subs, LAMBDA s : s \notin seenNow)

RECURSIVE ProcessFrontier(_, _, _)

\* Variant: a dangling reference ends the for loop (break for continue).
ProcessFrontier_BreakOnDangling(index, frontier, st) ==
    IF frontier = <<>> THEN st
    ELSE LET pid == Head(frontier)
             course == DictGet(index, pid)
         IN IF pid \in st.seen
            THEN ProcessFrontier(index, Tail(frontier),
                                 [st EXCEPT !.cycle_detected = TRUE])
            ELSE IF course = None
            THEN st
            ELSE LET seenNow == st.seen \cup {pid}
                 IN ProcessFrontier(index, Tail(frontier),
                        [st EXCEPT !.seen = seenNow,
                                   !.level_courses = Append(@, course),
                                   !.next_frontier =
                                       AppendUnseen(@, course.prerequisite_ids, seenNow)])

ProcessFrontier(index, frontier, st) ==
    IF frontier = <<>> THEN st
    ELSE LET pid == Head(frontier)
             course == DictGet(index, pid)
         IN IF pid \in st.seen
            THEN ProcessFrontier(index, Tail(frontier),
                                 [st EXCEPT !.cycle_detected = TRUE])
            ELSE IF course = None
            THEN ProcessFrontier(index, Tail(frontier), st)
            ELSE LET seenNow == st.seen \cup {pid}
                 IN ProcessFrontier(index, Tail(frontier),
                        [st EXCEPT !.seen = seenNow,
                                   !.level_courses = Append(@, course),
                                   !.next_frontier =
                                       AppendUnseen(@, course.prerequisite_ids, seenNow)])

\* flat_path (lines 76-84): levels reversed, first occurrence of an id kept.
RECURSIVE DedupById(_, _)
DedupById(cs, seen_flat) ==
    IF cs = <<>> THEN <<>>
    ELSE IF Head(cs).course_id \in seen_flat
         THEN DedupById(Tail(cs), seen_flat)
         ELSE <<Head(cs)>> \o DedupById(Tail(cs), seen_flat \cup {Head(cs).course_id})

\* Variant: the levels are flattened shallowest first.
FlatPath_NoReverse(lv) == DedupById(Flatten(lv), {})

FlatPath(lv) == DedupById(Flatten(Reverse(lv)), {})

TotalHours(flat) == SumSeq([i \in 1..Len(flat) |-> IntOf(flat[i].est_hours)])

\* Variant: the walk starts at the target itself.
InitialFrontier_WithTarget(t) == <<t.course_id>> \o t.prerequisite_ids

\* line 41: the first frontier is the target's own prerequisite list
InitialFrontier(t) == t.prerequisite_ids

\* Variant: the depth test is off by one.
WhileCond_OffByOne(frontier, d, md) == frontier # <<>> /\ d <= md

\* line 44: while current_frontier and depth < max_depth
WhileCond(frontier, d, md) == frontier # <<>> /\ d < md

ResInit ==
    /\ courses_index \in GeneratedIndexes \cup {ChainIndex}
    /\ rpc = "idle"
    /\ r_course_id = 0
    /\ r_max_depth = 0
    /\ target = None
    /\ cycle_detected = FALSE
    /\ seen = {}
    /\ levels = <<>>
    /\ current_frontier = <<>>
    /\ depth = 0
    /\ result = [kind |-> "pending"]

\* lines 32-43: the call, the target lookup and the initial frontier
PathStart(cid, md) ==
    /\ rpc = "idle"
    /\ r_course_id' = cid
    /\ r_max_depth' = md
    /\ target' = DictGet(courses_index, cid)
    /\ cycle_detected' = FALSE
    /\ seen' = {}
    /\ levels' = <<>>
    /\ depth' = 0
    /\ IF target' = None
       THEN /\ result' = [kind |-> "None"]
            /\ current_frontier' = <<>>
            /\ rpc' = "done"
       ELSE /\ result' = result
            /\ current_frontier' = InitialFrontier(target')
            /\ rpc' = "loop"
    /\ UNCHANGED <<courses_index, notResVars>>

\* lines 44-74: one iteration of the while loop
PathLevel ==
    /\ rpc = "loop"
    /\ WhileCond(current_frontier, depth, r_max_depth)
    /\ LET st == ProcessFrontier(courses_index, current_frontier,
                     [seen |-> seen, level_courses |-> <<>>,
                      next_frontier |-> <<>>, cycle_detected |-> cycle_detected])
       IN /\ seen' = st.seen
          /\ cycle_detected' = st.cycle_detected
          /\ levels' = IF st.level_courses # <<>>
                       THEN Append(levels, st.level_courses) ELSE levels
          /\ current_frontier' = st.next_frontier
    /\ depth' = depth + 1
    /\ UNCHANGED <<courses_index, rpc, r_course_id, r_max_depth, target, result,
                   notResVars>>

\* lines 76-94: the loop has ended; flat_path, total_hours and the return
PathReturn ==
    /\ rpc = "loop"
    /\ ~WhileCond(current_frontier, depth, r_max_depth)
    /\ result' = [kind |-> "path",
                  target |-> target,
                  levels |-> levels,
                  flat_path |-> FlatPath(levels),
                  total_hours |-> TotalHours(FlatPath(levels)),
                  cycle_detected |-> cycle_detected]
    /\ rpc' = "done"
    /\ UNCHANGED <<courses_index, r_course_id, r_max_depth, target,
                   cycle_detected, seen, levels, current_frontier, depth, notResVars>>

\* The same call as one function of its arguments: the while loop of lines
\* 44-74 from a given frontier and depth on, then lines 76-94.
\* acc = [seen, levels, cycle_detected]
RECURSIVE WalkLevels(_, _, _, _, _)
WalkLevels(index, frontier, d, md, acc) ==
    IF ~WhileCond(frontier, d, md) THEN acc
    ELSE LET st == ProcessFrontier(index, frontier,
                       [seen |-> acc.seen, level_courses |-> <<>>,
                        next_frontier |-> <<>>,
                        cycle_detected |-> acc.cycle_detected])
         IN WalkLevels(index, st.next_frontier, d + 1, md,
                       [seen |-> st.seen,
                        levels |-> IF st.level_courses # <<>>
                                   THEN Append(acc.levels, st.level_courses)
                                   ELSE acc.levels,
                        cycle_detected |-> st.cycle_detected])

GetLearningPath(index, cid, md) ==
    LET t == DictGet(index, cid)
    IN IF t = None THEN [kind |-> "None"]
       ELSE LET w == WalkLevels(index, InitialFrontier(t), 0, md,
                         [seen |-> {}, levels |-> <<>>, cycle_detected |-> FALSE])
            IN [kind |-> "path",
                target |-> t,
                levels |-> w.levels,
                flat_path |-> FlatPath(w.levels),
                total_hours |-> TotalHours(FlatPath(w.levels)),
                cycle_detected |-> w.cycle_detected]

ResNext ==
    \/ \E cid \in RefIds, md \in DepthChoices : PathStart(cid, md)
    \/ PathLevel
    \/ PathReturn

\* ------------------------------------------- loader.py, binary_search.py
\* A row of the course file: its id and a title that tells apart rows with the
\* same id.
Titles == {"a", "b"}
Rows == [course_id : 1..MaxId, course_title : Titles]
CsvFiles == UNION {[1..n -> Rows] : n \in 0..MaxRows}

IndexPermutations(n) == {f \in [1..n -> 1..n] : \A i, j \in 1..n : i # j => f[i] # f[j]}

\* df.sort_values('course_id').reset_index(drop=True) (line 49). The default
\* sort kind is quicksort, which is not stable: rows with equal course_id may
\* come out in any order.
SortValues(rows) ==
    {r \in {[i \in 1..Len(rows) |-> rows[f[i]]] : f \in IndexPermutations(Len(rows))} :
        \A i \in 1..(Len(r) - 1) : r[i].course_id <= r[i + 1].course_id}

\* {c['course_id']: c for c in courses} (line 75): a later entry with the same
\* key replaces the earlier one.
DictFromList(courses) ==
    [k \in {courses[i].course_id : i \in 1..Len(courses)} |->
        courses[CHOOSE i \in 1..Len(courses) :
                    /\ courses[i].course_id = k
                    /\ \A j \in (i + 1)..Len(courses) : courses[j].course_id # k]]

\* binary_search (lines 18-31): the while loop from (left, right) on
RECURSIVE BinarySearchFrom(_, _, _, _)
BinarySearchFrom(list, target_id, left, right) ==
    IF left <= right
    THEN LET mid == (left + right) \div 2
             mid_id == list[mid + 1].course_id      \* list[mid], 0-based
         IN IF mid_id = target_id THEN list[mid + 1]
            ELSE IF mid_id < target_id
                 THEN BinarySearchFrom(list, target_id, mid + 1, right)
                 ELSE BinarySearchFrom(list, target_id, left, mid - 1)
    ELSE None

BinarySearch(list, target_id) == BinarySearchFrom(list, target_id, 0, Len(list) - 1)

LoadIdle ==
    /\ df = None
    /\ courses_list = <<>>
    /\ course_index = <<>>
    /\ load_error = "none"
    /\ lpc = "start"
    /\ q_id = 0
    /\ bs_result = None
    /\ idx_result = None

LoadInit ==
    /\ csv_rows \in CsvFiles
    /\ LoadIdle

\* app.py line 19: get_all_courses -> _ensure_loaded -> load_and_preprocess
LoadAndPreprocess ==
    /\ lpc = "start"
    /\ df = None
    /\ df' \in SortValues(csv_rows)
    /\ lpc' = "loaded"
    /\ UNCHANGED <<csv_rows, courses_list, course_index, load_error,
                   q_id, bs_result, idx_result, notLoadVars>>

\* app.py line 20: get_courses_list, the records of the loaded frame
GetCoursesList ==
    /\ lpc = "loaded"
    /\ courses_list' = df
    /\ lpc' = "listed"
    /\ UNCHANGED <<csv_rows, df, course_index, load_error, q_id, bs_result,
                   idx_result, notLoadVars>>

\* app.py line 21: build_course_index, over get_courses_list() again
BuildCourseIndex ==
    /\ lpc = "listed"
    /\ course_index' = DictFromList(df)
    /\ lpc' = "ready"
    /\ UNCHANGED <<csv_rows, df, courses_list, load_error, q_id, bs_result,
                   idx_result, notLoadVars>>

\* A lookup of one id both ways: routes/search.py (binary_search over
\* COURSES_LIST) and prerequisite.py line 32 (COURSE_INDEX.get).
Lookup(id) ==
    /\ lpc = "ready"
    /\ q_id' = id
    /\ bs_result' = BinarySearch(courses_list, id)
    /\ idx_result' = DictGet(course_index, id)
    /\ UNCHANGED <<csv_rows, df, courses_list, course_index, load_error, lpc,
                   notLoadVars>>

LoadNext ==
    \/ LoadAndPreprocess
    \/ GetCoursesList
    \/ BuildCourseIndex
    \/ \E id \in 1..(MaxId + 1) : Lookup(id)

\* ----------------------------------------------------- recommender.py
Min(a, b) == IF a <= b THEN a ELSE b
Max(a, b) == IF a >= b THEN a ELSE b

\* s[:k] of Python: the first k items, and for k < 0 all but the last -k.
PySlicePrefix(s, k) ==
    IF k >= 0 THEN SubSeq(s, 1, Min(k, Len(s)))
    ELSE SubSeq(s, 1, Max(Len(s) + k, 0))

RECURSIVE SetToSortedSeq(_)
SetToSortedSeq(S) ==
    IF S = {} THEN <<>>
    ELSE LET m == CHOOSE x \in S : \A y \in S : x <= y
         IN <<m>> \o SetToSortedSeq(S \ {m})

\* The catalogs init_recommender is given: at least one course (TfidfVectorizer
\* rejects an empty corpus), ascending by course_id, no id twice.
RecCourse(i) == [course_id |-> i]
RecCatalogs ==
    {[p \in 1..Cardinality(S) |-> RecCourse(SetToSortedSeq(S)[p])] :
        S \in (SUBSET (1..RecMaxId)) \ {{}}}

\* What cosine_similarity(_tfidf_matrix, _tfidf_matrix) can be for n texts: a
\* symmetric n x n matrix with MaxSim on the diagonal. The model keeps of the
\* TF-IDF vectors only these pairwise scores.
PairsBelow(n) == {pr \in (1..n) \X (1..n) : pr[1] < pr[2]}
SimMatrices(n) ==
    {[a \in 1..n |-> [b \in 1..n |->
          IF a = b THEN MaxSim ELSE f[<<Min(a, b), Max(a, b)>>]]] :
        f \in [PairsBelow(n) -> 0..MaxSim]}

\* {c['course_id']: idx for idx, c in enumerate(courses_list)} (line 36),
\* idx counted from 0
IndexMap(list) ==
    [k \in {list[i].course_id : i \in 1..Len(list)} |->
        (CHOOSE i \in 1..Len(list) :
             /\ list[i].course_id = k
             /\ \A j \in (i + 1)..Len(list) : list[j].course_id # k) - 1]

\* sorted(scores, key=lambda x: x[1], reverse=True) (line 52) on the pairs
\* (i, row[i]): insertion of each pair behind the pairs already placed whose
\* score is at least its own (the sort is stable). The result lists the i.
RECURSIVE InsertByScore(_, _, _)
InsertByScore(sorted, i, row) ==
    IF sorted = <<>> THEN <<i>>
    ELSE IF row[Head(sorted) + 1] >= row[i + 1]
         THEN <<Head(sorted)>> \o InsertByScore(Tail(sorted), i, row)
         ELSE <<i>> \o sorted

RECURSIVE SortedByScore(_, _)
SortedByScore(row, n) ==
    IF n = 0 THEN <<>>
    ELSE InsertByScore(SortedByScore(row, n - 1), n - 1, row)

\* lines 50-53: the ranking of the other positions
RankOthers(row, idx) ==
    SelectSeq(SortedByScore(row, Len(row)), LAMBDA i : i # idx)

QueryIdle ==
    /\ qpc = "idle"
    /\ q_course_id = 0
    /\ q_top_k = 0
    /\ q_idx = None
    /\ q_scores = <<>>
    /\ q_pos = 1
    /\ q_result = <<>>
    /\ q_outcome = "pending"
    /\ q_builds = {}

\* lines 10-13: the module as imported
RecInit ==
    /\ tfidf_matrix = None
    /\ cosine_sim = None
    /\ rec_courses_list = None
    /\ id_to_index = [build |-> 0, map |-> <<>>]
    /\ ipc = "idle"
    /\ i_courses = <<>>
    /\ builds = 0
    /\ QueryIdle

\* line 23: _courses_list = courses_list
InitCoursesList(list) ==
    /\ ipc = "idle"
    /\ builds < MaxBuilds
    /\ builds' = builds + 1
    /\ i_courses' = list
    /\ rec_courses_list' = [build |-> builds + 1, list |-> list]
    /\ ipc' = "list_set"
    /\ UNCHANGED <<tfidf_matrix, cosine_sim, id_to_index, qpc, q_course_id, q_top_k,
                   q_idx, q_scores, q_pos, q_result, q_outcome, q_builds, notRecVars>>

\* lines 26-32: _tfidf_matrix = vectorizer.fit_transform(texts)
InitTfidf ==
    /\ ipc = "list_set"
    /\ \E m \in SimMatrices(Len(i_courses)) :
           tfidf_matrix' = [build |-> builds, m |-> m]
    /\ ipc' = "tfidf_set"
    /\ UNCHANGED <<cosine_sim, rec_courses_list, id_to_index, i_courses, builds, qpc,
                   q_course_id, q_top_k, q_idx, q_scores, q_pos, q_result,
                   q_outcome, q_builds, notRecVars>>

\* line 33: _cosine_sim = cosine_similarity(_tfidf_matrix, _tfidf_matrix)
InitCosine ==
    /\ ipc = "tfidf_set"
    /\ cosine_sim' = tfidf_matrix
    /\ ipc' = "sim_set"
    /\ UNCHANGED <<tfidf_matrix, rec_courses_list, id_to_index, i_courses, builds, qpc,
                   q_course_id, q_top_k, q_idx, q_scores, q_pos, q_result,
                   q_outcome, q_builds, notRecVars>>

\* line 36: _id_to_index = {...}, and the return
InitIndexMap ==
    /\ ipc = "sim_set"
    /\ id_to_index' = [build |-> builds, map |-> IndexMap(i_courses)]
    /\ ipc' = "idle"
    /\ UNCHANGED <<tfidf_matrix, cosine_sim, rec_courses_list, i_courses, builds, qpc,
                   q_course_id, q_top_k, q_idx, q_scores, q_pos, q_result,
                   q_outcome, q_builds, notRecVars>>

initState == <<tfidf_matrix, cosine_sim, rec_courses_list, id_to_index, ipc,
               i_courses, builds>>

\* lines 43-44: the call and the test for an uninitialised module
QueryStart(id, k) ==
    /\ qpc = "idle"
    /\ q_course_id' = id
    /\ q_top_k' = k
    /\ IF cosine_sim = None \/ rec_courses_list = None
       THEN qpc' = "done" /\ q_outcome' = "returned"
       ELSE qpc' = "checked" /\ q_outcome' = q_outcome
    /\ UNCHANGED <<initState, q_idx, q_scores, q_pos, q_result, q_builds, notRecVars>>

\* lines 46-48: idx = _id_to_index.get(int(course_id))
QueryIndex ==
    /\ qpc = "checked"
    /\ q_idx' = DictGet(id_to_index.map, q_course_id)
    /\ IF q_course_id \notin DOMAIN id_to_index.map
       THEN qpc' = "done" /\ q_outcome' = "returned" /\ q_builds' = q_builds
       ELSE /\ qpc' = "indexed"
            /\ q_outcome' = q_outcome
            /\ q_builds' = q_builds \cup {id_to_index.build}
    /\ UNCHANGED <<initState, q_course_id, q_top_k, q_scores, q_pos, q_result,
                   notRecVars>>

\* lines 50-53 and the slice of line 56: the row _cosine_sim[idx], ranked
QueryScores ==
    /\ qpc = "indexed"
    /\ IF q_idx >= Len(cosine_sim.m)
       THEN /\ qpc' = "done"
            /\ q_outcome' = "IndexError"
            /\ q_scores' = q_scores
       ELSE /\ qpc' = "scored"
            /\ q_outcome' = q_outcome
            /\ q_scores' = PySlicePrefix(RankOthers(cosine_sim.m[q_idx + 1], q_idx),
                                         q_top_k)
    /\ q_builds' = q_builds \cup {cosine_sim.build}
    /\ UNCHANGED <<initState, q_course_id, q_top_k, q_idx, q_pos, q_result, notRecVars>>

\* lines 56-57: one pass of the for loop, result.append(_courses_list[i])
QueryAppend ==
    /\ qpc = "scored"
    /\ q_pos <= Len(q_scores)
    /\ IF q_scores[q_pos] >= Len(rec_courses_list.list)
       THEN /\ qpc' = "done"
            /\ q_outcome' = "IndexError"
            /\ q_result' = q_result
       ELSE /\ qpc' = qpc
            /\ q_outcome' = q_outcome
            /\ q_result' = Append(q_result, rec_courses_list.list[q_scores[q_pos] + 1])
    /\ q_pos' = q_pos + 1
    /\ q_builds' = q_builds \cup {rec_courses_list.build}
    /\ UNCHANGED <<initState, q_course_id, q_top_k, q_idx, q_scores, notRecVars>>

\* line 58: return result
QueryReturn ==
    /\ qpc = "scored"
    /\ q_pos > Len(q_scores)
    /\ qpc' = "done"
    /\ q_outcome' = "returned"
    /\ UNCHANGED <<initState, q_course_id, q_top_k, q_idx, q_scores, q_pos, q_result,
                   q_builds, notRecVars>>

RecNext ==
    \/ \E list \in RecCatalogs : InitCoursesList(list)
    \/ InitTfidf
    \/ InitCosine
    \/ InitIndexMap
    \/ \E id \in 1..(RecMaxId + 1), k \in (-1)..MaxTopK : QueryStart(id, k)
    \/ QueryIndex
    \/ QueryScores
    \/ QueryAppend
    \/ QueryReturn

\* ------------------------------------- recommender.py: recommend_by_filters
\* An optional argument: None, or a value.
Some(x) == [is_none |-> FALSE, v |-> x]

\* Strings are sequences of characters; str.lower maps A, B to a, b.
LowerChar(c) == CASE c = "A" -> "a" [] c = "B" -> "b" [] OTHER -> c
Lower(str) == [i \in 1..Len(str) |-> LowerChar(str[i])]

\* sub in str
Contains(sub, str) ==
    \E off \in 0..(Len(str) - Len(sub)) : SubSeq(str, off + 1, off + Len(sub)) = sub

\* `if category:` - an argument that is neither None nor the empty string
Truthy(opt) == ~opt.is_none /\ opt.v # <<>>

FiltCategories == {<<"A", "b">>, <<"b">>}
FiltDifficulties == {<<"A">>, <<"b">>}
FiltHours == {0, 3}
FiltRatings == {1, 2}

FiltCourse(i, cat, dif, hrs, rat) ==
    [course_id |-> i, category |-> cat, course_difficulty |-> dif,
     est_hours |-> hrs, course_rating |-> rat]

FiltCatalogs ==
    UNION {[1..n -> FiltCategories \X FiltDifficulties \X FiltHours \X FiltRatings] :
              n \in 0..FiltMaxCourses}

FiltList(attrs) ==
    [i \in 1..Len(attrs) |->
        FiltCourse(i, attrs[i][1], attrs[i][2], attrs[i][3], attrs[i][4])]

FiltArgs ==
    [category : {None, Some(<<>>), Some(<<"a">>), Some(<<"B">>)},
     difficulty : {None, Some(<<"a">>)},
     max_hours : {None, Some(0)},
     min_rating : {None, Some(2)},
     top_k : (-1)..MaxTopK]

\* sorted(filtered, key=rating, reverse=True) (line 88): stable, so a course
\* goes behind the courses already placed whose rating is at least its own.
RECURSIVE InsertByRating(_, _)
InsertByRating(sorted, c) ==
    IF sorted = <<>> THEN <<c>>
    ELSE IF Head(sorted).course_rating >= c.course_rating
         THEN <<Head(sorted)>> \o InsertByRating(Tail(sorted), c)
         ELSE <<c>> \o sorted

RECURSIVE SortedByRating(_)
SortedByRating(list) ==
    IF list = <<>> THEN <<>>
    ELSE InsertByRating(SortedByRating(SubSeq(list, 1, Len(list) - 1)), list[Len(list)])

\* lines 72-86: the four filters, each applied when its argument is supplied
Filtered(list, args) ==
    LET f1 == IF Truthy(args.category)
              THEN SelectSeq(list, LAMBDA c :
                       Contains(Lower(args.category.v), Lower(c.category)))
              ELSE list
        f2 == IF Truthy(args.difficulty)
              THEN SelectSeq(f1, LAMBDA c :
                       Contains(Lower(args.difficulty.v), Lower(c.course_difficulty)))
              ELSE f1
        f3 == IF ~args.max_hours.is_none
              THEN SelectSeq(f2, LAMBDA c : c.est_hours <= args.max_hours.v)
              ELSE f2
        f4 == IF ~args.min_rating.is_none
              THEN SelectSeq(f3, LAMBDA c : c.course_rating >= args.min_rating.v)
              ELSE f3
    IN f4

FiltInit ==
    /\ f_courses \in {FiltList(a) : a \in FiltCatalogs}
    /\ f_args = None
    /\ f_result = <<>>
    /\ fpc = "idle"

\* lines 61-89
RecommendByFilters(args) ==
    /\ fpc = "idle"
    /\ f_args' = args
    /\ f_result' = PySlicePrefix(SortedByRating(Filtered(f_courses, args)), args.top_k)
    /\ fpc' = "done"
    /\ UNCHANGED <<f_courses, notFiltVars>>

FiltNext == \E args \in FiltArgs : RecommendByFilters(args)

\* ------------------------------------ mock/edupath_engine.py: get_learning_path
\* One call in progress: its course_id and depth, the position of its for loop
\* over prerequisite_ids (line 136), and its local path.
Frame(cid, d) == [course_id |-> cid, depth |-> d, pos |-> 1, path |-> <<>>]

\* Variant: the depth cap is tested before the visited set.
BaseCase_NoVisitedTest(index, visited, cid, d, md) ==
    IF cid \notin DOMAIN index THEN "unknown"
    ELSE IF d > md THEN "maxdepth"
    ELSE "none"

\* lines 117-130: the base case a call with these arguments ends in, if any
BaseCase(index, visited, cid, d, md) ==
    IF cid \notin DOMAIN index THEN "unknown"
    ELSE IF cid \in visited THEN "circular"
    ELSE IF d > md THEN "maxdepth"
    ELSE "none"

\* lines 123 and 128: the two warnings printed
Warned(warnings, base) ==
    IF base \in {"circular", "maxdepth"} THEN warnings \cup {base} ELSE warnings

MockInit ==
    /\ m_index \in GeneratedIndexes \cup {ChainIndex}
    /\ mpc = "idle"
    /\ m_start = 0
    /\ m_max_depth = 0
    /\ m_visited = {}
    /\ m_stack = <<>>
    /\ m_warnings = {}
    /\ m_result = <<>>

\* lines 114-134 of the outermost call: visited = set(), depth = 0
MockCall(cid, md) ==
    /\ mpc = "idle"
    /\ m_start' = cid
    /\ m_max_depth' = md
    /\ LET base == BaseCase(m_index, {}, cid, 0, md)
       IN IF base # "none"
          THEN /\ m_result' = <<>>
               /\ m_warnings' = Warned(m_warnings, base)
               /\ mpc' = "done"
               /\ UNCHANGED <<m_visited, m_stack>>
          ELSE /\ m_visited' = {cid}
               /\ m_stack' = <<Frame(cid, 0)>>
               /\ mpc' = "run"
               /\ UNCHANGED <<m_result, m_warnings>>
    /\ UNCHANGED <<m_index, notMockVars>>

\* line 137, a nested call that ends in a base case: it returns [] and the
\* for loop of the caller moves on
MockSkip ==
    /\ mpc = "run"
    /\ LET top == m_stack[Len(m_stack)]
           prereqs == m_index[top.course_id].prerequisite_ids
       IN /\ top.pos <= Len(prereqs)
          /\ LET base == BaseCase(m_index, m_visited, prereqs[top.pos],
                                  top.depth + 1, m_max_depth)
             IN /\ base # "none"
                /\ m_warnings' = Warned(m_warnings, base)
          /\ m_stack' = [m_stack EXCEPT ![Len(m_stack)].pos = @ + 1]
    /\ UNCHANGED <<m_index, mpc, m_start, m_max_depth, m_visited, m_result,
                   notMockVars>>

\* line 137, a nested call that passes the base cases: lines 132-134 of it
MockDescend ==
    /\ mpc = "run"
    /\ LET top == m_stack[Len(m_stack)]
           prereqs == m_index[top.course_id].prerequisite_ids
       IN /\ top.pos <= Len(prereqs)
          /\ BaseCase(m_index, m_visited, prereqs[top.pos],
                      top.depth + 1, m_max_depth) = "none"
          /\ m_visited' = m_visited \cup {prereqs[top.pos]}
          /\ m_stack' = Append(m_stack, Frame(prereqs[top.pos], top.depth + 1))
    /\ UNCHANGED <<m_index, mpc, m_start, m_max_depth, m_warnings, m_result,
                   notMockVars>>

\* lines 139-140: the for loop of the innermost call is over; it appends its
\* own course and returns, and the caller extends its path (line 137)
MockReturn ==
    /\ mpc = "run"
    /\ LET n == Len(m_stack)
           top == m_stack[n]
           path == Append(top.path, m_index[top.course_id])
       IN /\ top.pos > Len(m_index[top.course_id].prerequisite_ids)
          /\ IF n = 1
             THEN /\ m_result' = path
                  /\ m_stack' = <<>>
                  /\ mpc' = "done"
             ELSE /\ m_stack' = [SubSeq(m_stack, 1, n - 1) EXCEPT
                                    ![n - 1].path = @ \o path,
                                    ![n - 1].pos = @ + 1]
                  /\ UNCHANGED <<m_result, mpc>>
    /\ UNCHANGED <<m_index, m_start, m_max_depth, m_visited, m_warnings,
                   notMockVars>>

MockNext ==
    \/ \E cid \in RefIds, md \in DepthChoices : MockCall(cid, md)
    \/ MockSkip
    \/ MockDescend
    \/ MockReturn

\* ------------------------------------------ binary_search.py: search_by_title
\* Titles as the loader leaves them (line 46 of loader.py: '' for a missing
\* title, no whitespace at either end), and search texts of any characters.
SearchChars == {"a", "A", "b", " "}
SearchTitles ==
    {<<>>, <<"a">>, <<"A", "b">>, <<"b", "a">>, <<"a", " ", "b">>}
SearchKeywords == UNION {[1..n -> SearchChars] : n \in 0..SearchMaxKeyword}

SearchCourse(i, title) == [course_id |-> i, course_title |-> title]
SearchCatalogs ==
    UNION {{[i \in 1..n |-> SearchCourse(i, ts[i])] : ts \in [1..n -> SearchTitles]}
           : n \in 0..SearchMaxCourses}

IsSpace(c) == c = " "

RECURSIVE Strip(_)
RECURSIVE Strip_LeadingOnly(_)

\* Variant: only leading whitespace is removed (lstrip).
Strip_LeadingOnly(str) ==
    IF str # <<>> /\ IsSpace(Head(str)) THEN Strip_LeadingOnly(Tail(str))
    ELSE str

\* str.strip(): whitespace removed at both ends
Strip(str) ==
    IF str = <<>> THEN <<>>
    ELSE IF IsSpace(Head(str)) THEN Strip(Tail(str))
    ELSE IF IsSpace(str[Len(str)]) THEN Strip(SubSeq(str, 1, Len(str) - 1))
    ELSE str

\* lines 45-49
SearchResult(list, keyword) ==
    LET keyword_lower == Strip(Lower(keyword))
    IN SelectSeq(list, LAMBDA c : Contains(keyword_lower, Lower(c.course_title)))

SearchInit ==
    /\ s_courses \in SearchCatalogs
    /\ s_keyword = <<>>
    /\ s_result = <<>>
    /\ spc = "idle"

SearchByTitle(keyword) ==
    /\ spc = "idle"
    /\ s_keyword' = keyword
    /\ s_result' = SearchResult(s_courses, keyword)
    /\ spc' = "done"
    /\ UNCHANGED <<s_courses, notSearchVars>>

SearchNext == \E keyword \in SearchKeywords : SearchByTitle(keyword)

\* ------------------------------------------------------ specifications
ResIdle ==
    /\ courses_index = <<>>
    /\ rpc = "off"
    /\ r_course_id = 0
    /\ r_max_depth = 0
    /\ target = None
    /\ cycle_detected = FALSE
    /\ seen = {}
    /\ levels = <<>>
    /\ current_frontier = <<>>
    /\ depth = 0
    /\ result = [kind |-> "pending"]

LoadOff == csv_rows = <<>> /\ LoadIdle

RecOff ==
    /\ tfidf_matrix = None
    /\ cosine_sim = None
    /\ rec_courses_list = None
    /\ id_to_index = [build |-> 0, map |-> <<>>]
    /\ ipc = "off"
    /\ i_courses = <<>>
    /\ builds = 0
    /\ QueryIdle

FiltOff ==
    /\ f_courses = <<>>
    /\ f_args = None
    /\ f_result = <<>>
    /\ fpc = "off"

MockOff ==
    /\ m_index = <<>>
    /\ mpc = "off"
    /\ m_start = 0
    /\ m_max_depth = 0
    /\ m_visited = {}
    /\ m_stack = <<>>
    /\ m_warnings = {}
    /\ m_result = <<>>

SearchOff ==
    /\ s_courses = <<>>
    /\ s_keyword = <<>>
    /\ s_result = <<>>
    /\ spc = "off"

ResolveInit == ResInit /\ LoadOff /\ RecOff /\ FiltOff /\ MockOff /\ SearchOff
ResolveSpec == ResolveInit /\ [][ResNext]_vars

LoadSpecInit == LoadInit /\ ResIdle /\ RecOff /\ FiltOff /\ MockOff /\ SearchOff
LoadSpec == LoadSpecInit /\ [][LoadNext]_vars

RecSpecInit == RecInit /\ ResIdle /\ LoadOff /\ FiltOff /\ MockOff /\ SearchOff
RecSpec == RecSpecInit /\ [][RecNext]_vars

FilterInit == FiltInit /\ ResIdle /\ LoadOff /\ RecOff /\ MockOff /\ SearchOff
FilterSpec == FilterInit /\ [][FiltNext]_vars

\* The standalone engine runs one statement after another, so a call in
\* progress always takes its next step.
MockSpecInit == MockInit /\ ResIdle /\ LoadOff /\ RecOff /\ FiltOff /\ SearchOff
MockSpec == MockSpecInit /\ [][MockNext]_vars /\ WF_vars(MockNext)

SearchSpecInit ==
    SearchInit /\ ResIdle /\ LoadOff /\ RecOff /\ FiltOff /\ MockOff
SearchSpec == SearchSpecInit /\ [][SearchNext]_vars

\* ===================================================================
\* Properties of get_learning_path (ResolveSpec)
\* ===================================================================
Done == rpc = "done"
Returned == rpc = "done" /\ result.kind = "path"

IdsOf(cs) == [i \in 1..Len(cs) |-> cs[i].course_id]
LevelIds(lv) == Range(IdsOf(Flatten(lv)))
Count(s, x) == Cardinality({i \in 1..Len(s) : s[i] = x})

\* Ids reachable from `from` by one or more prerequisite references between
\* courses of the index.
Succ(index, a) == Range(index[a].prerequisite_ids) \cap DOMAIN index
RECURSIVE ReachFrom(_, _, _)
ReachFrom(index, frontier, acc) ==
    LET new == (UNION {Succ(index, a) : a \in frontier}) \ acc
    IN IF new = {} THEN acc ELSE ReachFrom(index, new, acc \cup new)
Reach(index, a) == ReachFrom(index, {a}, {})
OnCycle(index, a) == a \in DOMAIN index /\ a \in Reach(index, a)
CycleMates(index, a) == {c \in Reach(index, a) : a \in Reach(index, c)} \ {a}

\* C1: when the target lies on a prerequisite cycle, the resolution (default
\* max_depth) returns with cycle_detected = TRUE, the flattened path holds every
\* other course of the cycle exactly once, and the target appears in no level
\* and not in the flattened path.
C1_CycleResolved ==
    (Done /\ r_max_depth = DefaultMaxDepth /\ OnCycle(courses_index, r_course_id))
        => /\ result.kind = "path"
           /\ result.cycle_detected
           /\ \A c \in CycleMates(courses_index, r_course_id) :
                  Count(IdsOf(result.flat_path), c) = 1
           /\ r_course_id \notin LevelIds(result.levels)
           /\ r_course_id \notin Range(IdsOf(result.flat_path))

C6_State ==
    /\ rpc = "loop" => depth <= r_max_depth /\ Len(levels) <= depth
    /\ (Done /\ target # None) =>
          /\ result.kind = "path"
          /\ Len(result.levels) <= r_max_depth
          /\ Range(IdsOf(result.flat_path)) \subseteq LevelIds(result.levels)

\* Every pass of the while loop uses up one unit of the depth budget and
\* appends at most one level, and when the loop condition fails the call
\* returns.
C6_Step ==
    /\ PathLevel => /\ depth' = depth + 1
                    /\ depth' <= r_max_depth
                    /\ Len(levels') <= Len(levels) + 1
    /\ (rpc = "loop" /\ rpc' # "loop") => rpc' = "done" /\ result'.kind = "path"

\* C6: for every max_depth >= 0 the walk ends after at most max_depth passes
\* without an error, and returns a path of at most max_depth levels whose
\* flattened path holds only courses of those levels.
C6_DepthCap == [](C6_State) /\ [][C6_Step]_vars

\* The chain of ChainDepth links resolved with the default cap is cut at
\* DefaultMaxDepth levels.
C6_Witness ==
    /\ Returned
    /\ courses_index = ChainIndex
    /\ r_course_id = 1
    /\ r_max_depth = DefaultMaxDepth
    /\ Len(result.levels) = DefaultMaxDepth
    /\ current_frontier # <<>>

C7_State ==
    Done =>
       /\ result.kind = "None" <=> r_course_id \notin DOMAIN courses_index
       /\ result.kind = "path" =>
             /\ LevelIds(result.levels) \subseteq DOMAIN courses_index
             /\ Range(IdsOf(result.flat_path)) \subseteq DOMAIN courses_index

\* One pass over a frontier handles every id of it: each id of the frontier that
\* the index holds is in `seen` afterwards, and those not seen before are in
\* the level this pass appended.
C7_Step ==
    PathLevel =>
        /\ Range(current_frontier) \cap DOMAIN courses_index \subseteq seen'
        /\ LET fresh == (Range(current_frontier) \cap DOMAIN courses_index) \ seen
           IN fresh # {} => /\ Len(levels') = Len(levels) + 1
                            /\ Range(IdsOf(levels'[Len(levels')])) = fresh

\* C7: the result is None exactly when the target id is absent from the index;
\* an absent prerequisite id appears in no level and not in the flattened
\* path, and does not keep the other ids of its frontier from being processed.
C7_NotFoundAndDangling == [](C7_State) /\ [][C7_Step]_vars

\* A returned path whose target lists a dangling id before a catalog id.
C7_Witness ==
    /\ Returned
    /\ r_max_depth >= 1
    /\ Len(target.prerequisite_ids) >= 2
    /\ target.prerequisite_ids[1] \notin DOMAIN courses_index
    /\ target.prerequisite_ids[2] \in DOMAIN courses_index
    /\ target.prerequisite_ids[2] \in LevelIds(result.levels)

\* C8: a course with no prerequisites resolves to a path with zero levels, an
\* empty flattened path, total_hours = 0 and no cycle flagged.
C8_EmptyPrereqs ==
    (Done /\ target # None /\ target.prerequisite_ids = <<>>)
        => /\ result.kind = "path"
           /\ result.levels = <<>>
           /\ result.flat_path = <<>>
           /\ result.total_hours = 0
           /\ result.cycle_detected = FALSE

C8_Witness ==
    /\ Returned
    /\ target.prerequisite_ids = <<>>
    /\ r_max_depth >= 1

\* The catalog {1: [], 2: [1], 3: [1, 2]} resolved for course 3 with a depth
\* budget of at least one level.
C13_Example ==
    /\ Returned
    /\ r_course_id = 3
    /\ r_max_depth >= 1
    /\ courses_index[1].prerequisite_ids = <<>>
    /\ courses_index[2].prerequisite_ids = <<1>>
    /\ courses_index[3].prerequisite_ids = <<1, 2>>

C13_FlatShape ==
    Returned =>
       /\ result.flat_path = Flatten(Reverse(result.levels))
       /\ \A c \in LevelIds(result.levels) : Count(IdsOf(result.flat_path), c) = 1
       /\ Range(IdsOf(result.flat_path)) = LevelIds(result.levels)

\* C13 as stated: the flattened path is the levels concatenated from the
\* deepest back to the shallowest, order inside a level kept, each course
\* exactly once; in the example the levels are [[1, 2]], the flattened path is
\* [1, 2] and total_hours is hours(1) + hours(2) (est_hours counted in half
\* hours, so twice total_hours is the sum of the two est_hours).
C13_FlatPathAndHours ==
    /\ C13_FlatShape
    /\ C13_Example =>
          /\ result.levels = <<<<courses_index[1], courses_index[2]>>>>
          /\ result.flat_path = <<courses_index[1], courses_index[2]>>
          /\ 2 * result.total_hours =
                 courses_index[1].est_hours + courses_index[2].est_hours

\* C13 amended: as above, with total_hours the sum of the est_hours of the
\* flattened path each truncated to a whole number of hours.
C13_FlatPathTruncatedHours ==
    /\ C13_FlatShape
    /\ Returned =>
          result.total_hours =
              SumSeq([i \in 1..Len(result.flat_path) |->
                         result.flat_path[i].est_hours \div 2])
    /\ C13_Example =>
          /\ result.levels = <<<<courses_index[1], courses_index[2]>>>>
          /\ result.flat_path = <<courses_index[1], courses_index[2]>>
          /\ result.total_hours =
                 (courses_index[1].est_hours \div 2)
                     + (courses_index[2].est_hours \div 2)

\* The example has been resolved, with a fractional est_hours among the two
\* courses of its path.
C13_Witness ==
    /\ C13_Example
    /\ courses_index[1].est_hours % 2 = 1
    /\ result.total_hours = 3

\* A path of two levels or more has been flattened deepest level first.
C13_WitnessDeep ==
    /\ Returned
    /\ Len(result.levels) >= 2
    /\ result.flat_path[1] = result.levels[Len(result.levels)][1]

\* No course of the index reaches itself through prerequisite references.
Acyclic(index) == \A a \in DOMAIN index : a \notin Reach(index, a)

\* C14: on an acyclic catalog every course of the flattened path comes after
\* each of its own prerequisites that the flattened path holds too, whatever
\* the order of the ids inside the prerequisite_ids lists.
C14_StudyOrder ==
    (Returned /\ Acyclic(courses_index)) =>
        LET flat == result.flat_path
        IN \A i, j \in 1..Len(flat) :
               flat[j].course_id \in Range(flat[i].prerequisite_ids) => j < i

\* A list without its repeated ids, first occurrences kept in order.
RECURSIVE DedupSeq(_, _)
DedupSeq(ids, had) ==
    IF ids = <<>> THEN <<>>
    ELSE IF Head(ids) \in had THEN DedupSeq(Tail(ids), had)
         ELSE <<Head(ids)>> \o DedupSeq(Tail(ids), had \cup {Head(ids)})

HasRepeat(ids) == \E i, j \in 1..Len(ids) : i # j /\ ids[i] = ids[j]

WithDedupedTarget(index, cid) ==
    [index EXCEPT ![cid].prerequisite_ids = DedupSeq(@, {})]

PathIds(r) ==
    [levels |-> [l \in 1..Len(r.levels) |-> IdsOf(r.levels[l])],
     flat_path |-> IdsOf(r.flat_path),
     total_hours |-> r.total_hours,
     cycle_detected |-> r.cycle_detected]

\* The three actions of a call compute GetLearningPath of its arguments.
PathIsFunction ==
    Done => result = GetLearningPath(courses_index, r_course_id, r_max_depth)

\* C15: a target whose prerequisite_ids repeats an id resolves to the same
\* levels, flattened path, total_hours and cycle flag as the same target with
\* that list deduplicated order-preservingly.
C15_DuplicatesAsSet ==
    (Returned /\ HasRepeat(target.prerequisite_ids)) =>
        PathIds(result) =
            PathIds(GetLearningPath(WithDedupedTarget(courses_index, r_course_id),
                                    r_course_id, r_max_depth))

\* No course reachable from `a`, nor `a` itself, lies on a directed cycle.
AcyclicFrom(index, a) ==
    \A c \in Reach(index, a) \cup {a} : c \notin Reach(index, c)

\* C16: when the prerequisite graph reachable from the target has no directed
\* cycle (diamonds included, in any order of the prerequisite_ids lists), the
\* call returns cycle_detected = FALSE.  Stated here for the catalogs whose
\* lists repeat no id, so that only the shape of the graph is in question.
C16_NoFalseCycle ==
    (/\ Returned
     /\ AcyclicFrom(courses_index, r_course_id)
     /\ \A a \in DOMAIN courses_index :
            ~HasRepeat(courses_index[a].prerequisite_ids))
        => result.cycle_detected = FALSE

\* ===================================================================
\* Properties of the loaded catalog (LoadSpec)
\* ===================================================================
ListIds(list) == {list[i].course_id : i \in 1..Len(list)}
HasDuplicateIds(rows) ==
    \E i, j \in 1..Len(rows) : i # j /\ rows[i].course_id = rows[j].course_id

\* C2: on a built catalog binary_search over the list and the index lookup
\* return the same course record for an id present and both None otherwise.
C2_LookupsAgree ==
    (lpc = "ready" /\ q_id # 0) =>
        /\ bs_result = idx_result
        /\ q_id \in ListIds(courses_list) <=> bs_result # None

\* C3: a course file in which two rows share an id never yields a built
\* catalog: start-up ends with InvalidInput.
C3_DuplicateIdsRejected ==
    (HasDuplicateIds(csv_rows) /\ lpc \in {"listed", "ready"}) =>
        /\ load_error = "InvalidInput"
        /\ lpc # "ready"

\* C4: the built list is strictly ascending by course_id and the index holds
\* exactly the ids of the list, as many entries as the list has.
C4_SortedSameSet ==
    lpc = "ready" =>
        /\ \A i \in 1..(Len(courses_list) - 1) :
               courses_list[i].course_id < courses_list[i + 1].course_id
        /\ Cardinality(DOMAIN course_index) = Len(courses_list)
        /\ DOMAIN course_index = ListIds(courses_list)

\* What does hold of the loader as written: the list is ascending (not
\* strictly), the index holds the ids of the list, and on a file without a
\* repeated id the two lookups agree and C4 holds.
LoadedCatalogFacts ==
    lpc = "ready" =>
        /\ \A i \in 1..(Len(courses_list) - 1) :
               courses_list[i].course_id <= courses_list[i + 1].course_id
        /\ DOMAIN course_index = ListIds(courses_list)
        /\ Len(courses_list) = Len(csv_rows)
        /\ ~HasDuplicateIds(csv_rows) =>
              /\ C4_SortedSameSet
              /\ \A id \in 1..(MaxId + 1) :
                     BinarySearch(courses_list, id) = DictGet(course_index, id)

\* ===================================================================
\* Properties of the similarity ranker (RecSpec)
\* ===================================================================
QueryDone == qpc = "done"

\* C5: a get_similar_courses call that overlaps a rebuild reads the course
\* list, the similarity matrix and the id-to-position map of one and the same
\* build, and never indexes out of range.
C5_QueryReadsOneBuild ==
    QueryDone => /\ q_outcome # "IndexError"
                 /\ Cardinality(q_builds) <= 1

\* C9: on an initialised model, with no rebuild mixed in, the result holds no
\* course with the queried id, at most top_k courses (none when top_k <= 0),
\* and no course twice.
C9_NoSelfAtMostK ==
    (QueryDone /\ q_outcome = "returned" /\ Cardinality(q_builds) <= 1) =>
        /\ \A p \in 1..Len(q_result) : q_result[p].course_id # q_course_id
        /\ Len(q_result) <= Max(q_top_k, 0)
        /\ \A p1, p2 \in 1..Len(q_result) : p1 # p2 => q_result[p1] # q_result[p2]

\* What does hold of get_similar_courses as written: without an overlapping
\* rebuild it never raises, never returns the queried course or a course twice,
\* and for top_k >= 0 returns at most top_k courses.
SimilarCoursesFacts ==
    (QueryDone /\ Cardinality(q_builds) <= 1) =>
        /\ q_outcome = "returned"
        /\ \A p \in 1..Len(q_result) : q_result[p].course_id # q_course_id
        /\ q_top_k >= 0 => Len(q_result) <= q_top_k
        /\ \A p1, p2 \in 1..Len(q_result) : p1 # p2 => q_result[p1] # q_result[p2]

\* The call read one build, and the three globals still hold that build.
QueriedOneBuild ==
    /\ QueryDone
    /\ q_outcome = "returned"
    /\ rec_courses_list # None
    /\ cosine_sim # None
    /\ q_builds = {rec_courses_list.build}
    /\ cosine_sim.build = rec_courses_list.build
    /\ id_to_index.build = rec_courses_list.build
    /\ q_course_id \in DOMAIN id_to_index.map

\* The position (from 1) of the course with this id in the list.
PosOf(list, id) == CHOOSE p \in 1..Len(list) : list[p].course_id = id

\* Course at position a ranks before the course at position b for this row of
\* similarities: higher similarity, or the same similarity and a lower id.
SimBefore(list, row, a, b) ==
    \/ row[a] > row[b]
    \/ row[a] = row[b] /\ list[a].course_id < list[b].course_id

\* `res` is the first `k` of the other courses in that ranking.
IsTopSimilar(res, list, row, self, k) ==
    LET others == (1..Len(list)) \ {self}
        pos == [p \in 1..Len(res) |-> PosOf(list, res[p].course_id)]
    IN /\ Len(res) = Min(k, Cardinality(others))
       /\ \A p \in 1..Len(res) : res[p] \in Range(list) /\ pos[p] \in others
       /\ \A p1, p2 \in 1..Len(res) :
              p1 < p2 => SimBefore(list, row, pos[p1], pos[p2])
       /\ \A o \in others \ Range(pos) :
              \A p \in 1..Len(res) : SimBefore(list, row, pos[p], o)

\* C11: for a known id, get_similar_courses(id, k) returns the k courses of
\* highest similarity to the query course among all the other courses (all of
\* them when there are fewer than k, none when k is not positive), by
\* similarity descending, courses of equal similarity in ascending id order.
C11_TopKBySimilarity ==
    QueriedOneBuild =>
        LET list == rec_courses_list.list
            self == PosOf(list, q_course_id)
        IN IsTopSimilar(q_result, list, cosine_sim.m[self], self, Max(q_top_k, 0))

\* What does hold: for top_k >= 0 the result is that top k.
TopSimilarFacts ==
    (QueriedOneBuild /\ q_top_k >= 0) =>
        LET list == rec_courses_list.list
            self == PosOf(list, q_course_id)
        IN IsTopSimilar(q_result, list, cosine_sim.m[self], self, q_top_k)

\* A query with ties: two other courses of equal similarity returned in id
\* order.
TopSimilarTies ==
    /\ QueriedOneBuild
    /\ q_top_k = 2
    /\ Len(q_result) = 2
    /\ LET list == rec_courses_list.list
           row == cosine_sim.m[PosOf(list, q_course_id)]
       IN row[PosOf(list, q_result[1].course_id)]
              = row[PosOf(list, q_result[2].course_id)]

\* ===================================================================
\* Properties of recommend_by_filters (FilterSpec)
\* ===================================================================
\* A course satisfies every supplied filter.
Satisfies(c, args) ==
    /\ ~args.category.is_none => Contains(Lower(args.category.v), Lower(c.category))
    /\ ~args.difficulty.is_none =>
           Contains(Lower(args.difficulty.v), Lower(c.course_difficulty))
    /\ ~args.max_hours.is_none => c.est_hours <= args.max_hours.v
    /\ ~args.min_rating.is_none => c.course_rating >= args.min_rating.v

\* c1 ranks before c2: a higher rating, or the same rating and earlier in the
\* catalog (the catalog is ascending by course_id).
RanksBefore(c1, c2) ==
    \/ c1.course_rating > c2.course_rating
    \/ c1.course_rating = c2.course_rating /\ c1.course_id < c2.course_id

\* `res` is the first k entries of the courses of `list` that satisfy `args`,
\* ranked by RanksBefore.
IsTopK(res, list, args, k) ==
    LET matching == {c \in Range(list) : Satisfies(c, args)}
    IN /\ Len(res) = Min(Max(k, 0), Cardinality(matching))
       /\ Range(res) \subseteq matching
       /\ \A i, j \in 1..Len(res) : i < j => RanksBefore(res[i], res[j])
       /\ \A c \in matching \ Range(res) : \A i \in 1..Len(res) : RanksBefore(res[i], c)

\* C10: for every catalog, every combination of supplied and absent filters
\* and every k, the result is the first k entries of the courses that satisfy
\* all supplied filters, by rating descending, equal ratings in catalog order.
C10_TopKByRating ==
    fpc = "done" => IsTopK(f_result, f_courses, f_args, f_args.top_k)

\* What does hold of recommend_by_filters as written: C10 for every k >= 0.
RecommendFacts ==
    (fpc = "done" /\ f_args.top_k >= 0) =>
        IsTopK(f_result, f_courses, f_args, f_args.top_k)

\* ===================================================================
\* Properties of the standalone engine's get_learning_path (MockSpec)
\* ===================================================================
MockDone == mpc = "done"

\* What is left to do: two steps and one step per prerequisite reference for
\* every course not yet visited, and for every call in progress its return and
\* the rest of its for loop.
Work(index, visited, stack) ==
    SumSeq([c \in 1..Len(index) |->
               IF c \in visited THEN 0 ELSE 2 + Len(index[c].prerequisite_ids)])
    + SumSeq([f \in 1..Len(stack) |->
                 2 + Len(index[stack[f].course_id].prerequisite_ids) - stack[f].pos])

\* Every step of a call in progress uses up some of the work left.
C17_Step ==
    (mpc = "run") => /\ Work(m_index, m_visited', m_stack')
                          < Work(m_index, m_visited, m_stack)
                     /\ mpc' \in {"run", "done"}

C17_State ==
    /\ Len(m_stack) <= m_max_depth + 1
    /\ mpc = "run" =>
          /\ m_stack # <<>>
          /\ Work(m_index, m_visited, m_stack) >= 1
          /\ \A f \in 1..Len(m_stack) :
                 /\ m_stack[f].course_id \in DOMAIN m_index
                 /\ m_stack[f].pos
                        <= Len(m_index[m_stack[f].course_id].prerequisite_ids) + 1
    /\ mpc = "idle" => m_stack = <<>>
    /\ MockDone =>
          LET ids == IdsOf(m_result)
          IN /\ \A c \in Range(ids) : Count(ids, c) = 1
             /\ Range(ids) \subseteq DOMAIN m_index
             /\ m_start \in DOMAIN m_index =>
                    /\ m_result # <<>>
                    /\ ids[Len(ids)] = m_start
             /\ m_start \notin DOMAIN m_index => m_result = <<>>
             /\ (/\ m_start \in DOMAIN m_index
                 /\ AcyclicFrom(m_index, m_start)
                 /\ "maxdepth" \notin m_warnings) =>
                    \A i \in 1..Len(ids) :
                        \A p \in Succ(m_index, ids[i]) :
                            \E j \in 1..(i - 1) : ids[j] = p

\* C17: a call of the recursive get_learning_path returns, on cyclic graphs and
\* on chains deeper than max_depth too, with never more than max_depth + 1
\* nested calls; the list returned holds each course at most once and the start
\* course last, is empty for an unknown start id, and when no cycle is
\* reachable from the start and the depth cap was not hit every listed course
\* comes after all of its prerequisites that the index holds.
C17_TerminatesInOrder == [](C17_State) /\ [][C17_Step]_vars

\* The same termination as a liveness property of MockSpec.
MockTerminates == <>(MockDone)

\* A start course on a prerequisite cycle: the visited test cut the cycle and
\* the call returned the courses of the cycle.
C17_Witness ==
    /\ MockDone
    /\ OnCycle(m_index, m_start)
    /\ CycleMates(m_index, m_start) # {}
    /\ "circular" \in m_warnings
    /\ Len(m_result) >= 2

\* The chain of ChainDepth links: the depth cap cut it after the start course
\* and DefaultMaxDepth courses below it.
C17_WitnessChain ==
    /\ MockDone
    /\ m_index = ChainIndex
    /\ m_start = 1
    /\ m_max_depth = DefaultMaxDepth
    /\ "maxdepth" \in m_warnings
    /\ Len(m_result) = DefaultMaxDepth + 1

\* A diamond resolved in prerequisite-first order.
C17_WitnessDiamond ==
    /\ MockDone
    /\ m_start \in DOMAIN m_index
    /\ AcyclicFrom(m_index, m_start)
    /\ "maxdepth" \notin m_warnings
    /\ \E a, b \in Succ(m_index, m_start) : a # b /\ b \in Succ(m_index, a)

\* ===================================================================
\* Properties of search_by_title (SearchSpec)
\* ===================================================================
\* The title holds the text as a substring, letter case set aside.
ContainsIgnoringCase(text, title) ==
    \E off \in 0..(Len(title) - Len(text)) :
        \A i \in 1..Len(text) : LowerChar(title[off + i]) = LowerChar(text[i])

\* `res` is the list of the courses of `list` whose title holds `text`, each
\* once, in the order of the list.
IsMatchList(res, list, text) ==
    LET hits == {p \in 1..Len(list) : ContainsIgnoringCase(text, list[p].course_title)}
    IN /\ Len(res) = Cardinality(hits)
       /\ \A i \in 1..Len(res) : res[i] = list[SetToSortedSeq(hits)[i]]

\* The text without the whitespace at its two ends.
Trimmed(text) ==
    LET inked == {i \in 1..Len(text) : text[i] # " "}
    IN IF inked = {} THEN <<>>
       ELSE SubSeq(text, CHOOSE i \in inked : \A j \in inked : i <= j,
                         CHOOSE i \in inked : \A j \in inked : i >= j)

====
